---- MODULE Spec2Model ----
(***************************************************************************)
(* Model of the Pixabay MCP server (src/src/index.ts): the call-tool       *)
(* request handler, the two search operations, the two by-id forms and     *)
(* the upstream HTTP exchange each invocation performs.                    *)
(*                                                                         *)
(* An invocation is a process: it runs the handler up to its first await   *)
(* (the fetch), is resumed when the fetch settles, is resumed again when   *)
(* the response body has been read, and its promise then settles either    *)
(* with a tool result or with a fault thrown to the protocol layer.        *)
(***************************************************************************)
EXTENDS Integers, Sequences, FiniteSets, TLC

VARIABLES apiKey, calls, listing

vars == <<apiKey, calls, listing>>

(***************************************************************************)
(* Bounds.                                                                 *)
(***************************************************************************)
\* invocations that can be in progress at once under Spec
MaxCalls == 1

\* invocations that can be in progress at once under SpecById
MaxById == 2

\* invocations that can be in progress at once under SpecConcurrent
MaxConcurrent == 2

\* invocations that can be in progress at once under SpecListing
MaxListing == 1

(***************************************************************************)
(* JavaScript values: every value carries its type tag.                    *)
(***************************************************************************)
Undefined == [kind |-> "undefined", val |-> "undefined"]

Null == [kind |-> "null", val |-> "null"]

Str(s) == [kind |-> "string", val |-> s]

Num(n) == [kind |-> "number", val |-> n]

Bool(b) == [kind |-> "boolean", val |-> b]

Obj(m) == [kind |-> "object", val |-> m]

\* an object with no own properties
EmptyMap == [n \in {} |-> Undefined]

\* obj[name] on an object: a missing property reads as undefined
Get(m, n) == IF n \in DOMAIN m THEN m[n] ELSE Undefined

Digit(d) ==
    CASE d = 0 -> "0" [] d = 1 -> "1" [] d = 2 -> "2" [] d = 3 -> "3"
      [] d = 4 -> "4" [] d = 5 -> "5" [] d = 6 -> "6" [] d = 7 -> "7"
      [] d = 8 -> "8" [] d = 9 -> "9"

RECURSIVE NatToString(_)
NatToString(n) ==
    IF n < 10 THEN Digit(n) ELSE NatToString(n \div 10) \o Digit(n % 10)

\* String(n) for an integer-valued number
NumberToString(n) == IF n < 0 THEN "-" \o NatToString(-n) ELSE NatToString(n)

\* String(value)
String(v) ==
    CASE v.kind = "string" -> v.val
      [] v.kind = "number" -> NumberToString(v.val)
      [] v.kind = "boolean" -> (IF v.val THEN "true" ELSE "false")
      [] v.kind = "undefined" -> "undefined"
      [] v.kind = "null" -> "null"

(***************************************************************************)
(* Configuration (constructor).                                            *)
(***************************************************************************)
baseUrl == "https://pixabay.com/api/"

videosUrl == "https://pixabay.com/api/videos/"

\* process.env.PIXABAY_API_KEY: unset, empty, or a key
EnvApiKeys == {Undefined, Str(""), Str("SECRET")}

\* process.env.PIXABAY_API_KEY || ""
ConfigApiKey(env) == IF env.kind = "string" /\ env.val # "" THEN env.val ELSE ""

(***************************************************************************)
(* Errors, tool results and faults.                                        *)
(***************************************************************************)
\* new Error(message); TypeError and FetchError are Errors too
Error(msg) == [kind |-> "error", val |-> msg]

\* error instanceof Error ? error.message : String(error)
ErrorText(e) == IF e.kind = "error" THEN e.val ELSE String(e)

\* the handler's promise fulfilled with { content: [{ type: "text", text }] }
ToolResult(text) == [kind |-> "result", text |-> text]

\* the handler's promise rejected: the error reaches the protocol layer
Fault(e) == [kind |-> "fault", text |-> ErrorText(e)]

\* the value the catch clause of the call-tool handler returns
CatchResult(e) == ToolResult("Error: " \o ErrorText(e))

NoOutcome == [kind |-> "none", text |-> ""]

(***************************************************************************)
(* Building the outbound request.                                          *)
(***************************************************************************)
\* a filter on truthiness, which would also drop false and 0
KeptTruthy(value) ==
    /\ value # Undefined /\ value # Null /\ value # Str("")
    /\ value # Bool(FALSE) /\ value # Num(0)

\* the .filter(...) predicate of searchImages / searchVideos
Kept(value) == value # Undefined /\ value # Null /\ value # Str("")

\* Object.fromEntries(Object.entries(params).filter(...).map(...))
filteredParams(params) ==
    [n \in {m \in DOMAIN params : Kept(params[m])} |-> String(params[n])]

\* new URLSearchParams({ key: this.config.apiKey, ...filteredParams }):
\* the spread is applied after key, so a later entry of the same name wins
searchParams(params) ==
    LET fp == filteredParams(params)
    IN  [n \in {"key"} \cup DOMAIN fp |->
            IF n \in DOMAIN fp THEN fp[n] ELSE apiKey]

Throw(e) == [threw |-> TRUE, error |-> e, url |-> "", query |-> EmptyMap]

Request(url, query) ==
    [threw |-> FALSE, error |-> Undefined, url |-> url, query |-> query]

\* searchImages / searchVideos up to the await of fetch(url);
\* Object.entries(undefined) throws a TypeError
SearchStart(url, params) ==
    IF params.kind # "object"
    THEN Throw(Error("Cannot convert undefined or null to object"))
    ELSE Request(url, searchParams(params.val))

searchImages(params) == SearchStart(baseUrl, params)

searchVideos(params) == SearchStart(videosUrl, params)

\* params.id on undefined throws a TypeError
getImageById(params) ==
    IF params.kind # "object"
    THEN Throw(Error("Cannot read properties of undefined (reading 'id')"))
    ELSE searchImages(Obj([n \in {"id"} |-> Get(params.val, "id")]))

\* a by-id form delegating to the search of the other media type
getVideoByIdViaImages(params) ==
    IF params.kind # "object"
    THEN Throw(Error("Cannot read properties of undefined (reading 'id')"))
    ELSE searchImages(Obj([n \in {"id"} |-> Get(params.val, "id")]))

getVideoById(params) ==
    IF params.kind # "object"
    THEN Throw(Error("Cannot read properties of undefined (reading 'id')"))
    ELSE searchVideos(Obj([n \in {"id"} |-> Get(params.val, "id")]))

\* a switch whose default branch searches instead of throwing
DispatchDefaultSearch(name, args) ==
    CASE name = "search_images" -> searchImages(args)
      [] name = "search_videos" -> searchVideos(args)
      [] name = "get_image_by_id" -> getImageById(args)
      [] name = "get_video_by_id" -> getVideoById(args)
      [] OTHER -> searchImages(args)

\* the switch (name) of the call-tool handler
Dispatch(name, args) ==
    CASE name = "search_images" -> searchImages(args)
      [] name = "search_videos" -> searchVideos(args)
      [] name = "get_image_by_id" -> getImageById(args)
      [] name = "get_video_by_id" -> getVideoById(args)
      [] OTHER -> Throw(Error("Unknown tool: " \o name))

(***************************************************************************)
(* The upstream HTTP exchange.                                             *)
(***************************************************************************)
\* status codes the upstream answers with, and their reason phrases
Statuses == {200, 404, 500}

StatusText(status) ==
    CASE status = 200 -> "OK"
      [] status = 404 -> "Not Found"
      [] status = 500 -> "Internal Server Error"

\* response.ok
Ok(status) == status >= 200 /\ status <= 299

\* bodies of successful responses: a JSON document as a list of
\* <<property, number>> pairs, or text that is not JSON
JsonDocuments ==
    { [body |-> "{\"total\":0,\"totalHits\":12}", valid |-> TRUE,
       data |-> << <<"total", 0>>, <<"totalHits", 12>> >>],
      [body |-> "<html>busy</html>", valid |-> FALSE, data |-> << >>] }

\* body of an error response
ErrorBody(status) ==
    IF status = 404 THEN "[ERROR 404] no such page" ELSE "upstream failure"

BodiesFor(status) ==
    IF Ok(status) THEN {d.body : d \in JsonDocuments} ELSE {ErrorBody(status)}

Bodies == UNION {BodiesFor(status) : status \in Statuses}

\* what a rejected fetch, text() or json() carries
NetworkErrors == {Error("getaddrinfo ENOTFOUND pixabay.com")}

Document(body) == CHOOSE d \in JsonDocuments : d.body = body

RECURSIVE JsonProperties(_, _)
JsonProperties(data, i) ==
    IF i > Len(data) THEN ""
    ELSE (IF i > 1 THEN ",\n" ELSE "")
         \o "  \"" \o data[i][1] \o "\": " \o NumberToString(data[i][2])
         \o JsonProperties(data, i + 1)

\* JSON.stringify(data, null, 2) of a flat object
JsonStringify(data) ==
    IF Len(data) = 0 THEN "{}" ELSE "{\n" \o JsonProperties(data, 1) \o "\n}"

\* read: the body has been read to its end
NoResponse == [status |-> 0, statusText |-> "", read |-> FALSE, body |-> ""]

(***************************************************************************)
(* Invocations.                                                            *)
(***************************************************************************)
IdleCall ==
    [pc |-> "idle", name |-> "", args |-> Undefined, fetches |-> 0,
     url |-> "", query |-> EmptyMap, response |-> NoResponse,
     outcome |-> NoOutcome]

\* the invocation settles: its promise is fulfilled or rejected
Settle(call, outcome) == [call EXCEPT !.pc = "done", !.outcome = outcome]

\* a handler that dispatches without looking at the credential
HandleCallNoKeyCheck(name, args) ==
    LET call == [IdleCall EXCEPT !.name = name, !.args = args]
        d == Dispatch(name, args)
    IN  IF d.threw
        THEN Settle(call, CatchResult(d.error))
        ELSE [call EXCEPT !.pc = "fetch", !.fetches = 1,
                          !.url = d.url, !.query = d.query]

\* the call-tool handler from its entry to its first await or its return
HandleCall(name, args) ==
    LET call == [IdleCall EXCEPT !.name = name, !.args = args]
    IN  IF apiKey = ""
        THEN Settle(call,
                    Fault(Error("PIXABAY_API_KEY environment variable is required")))
        ELSE LET d == Dispatch(name, args)
             IN  IF d.threw
                 THEN Settle(call, CatchResult(d.error))
                 ELSE [call EXCEPT !.pc = "fetch", !.fetches = 1,
                                   !.url = d.url, !.query = d.query]

\* an error message that leaves the upstream body out
AfterBodyNoErrorText(call, body) ==
    LET r == call.response
    IN  IF ~Ok(r.status)
        THEN CatchResult(Error("Pixabay API error: " \o NumberToString(r.status)
                               \o " " \o r.statusText))
        ELSE IF ~Document(body).valid
        THEN CatchResult(Error("invalid json response body"))
        ELSE ToolResult(JsonStringify(Document(body).data))

\* the rest of searchImages / searchVideos once the body has been read
AfterBody(call, body) ==
    LET r == call.response
    IN  IF ~Ok(r.status)
        THEN CatchResult(Error("Pixabay API error: " \o NumberToString(r.status)
                               \o " " \o r.statusText \o " - " \o body))
        ELSE IF ~Document(body).valid
        THEN CatchResult(Error("invalid json response body"))
        ELSE ToolResult(JsonStringify(Document(body).data))

(***************************************************************************)
(* Inputs of the call-tool operation.                                      *)
(***************************************************************************)
RegisteredTools ==
    {"search_images", "search_videos", "get_image_by_id", "get_video_by_id"}

ToolNames == RegisteredTools \cup {"delete_image"}

Entry(p, values) == {[n \in {p} |-> v] : v \in values}

\* the example request of the documentation
ExampleMap ==
    [q |-> Str("mountain landscape"), orientation |-> Str("horizontal"),
     min_width |-> Num(1920), editors_choice |-> Bool(TRUE)]

ArgMaps ==
    {EmptyMap, ExampleMap}
    \cup Entry("q", {Str(""), Str("cat")})
    \cup Entry("id", {Null, Str(""), Str("195893"), Num(7)})
    \cup Entry("per_page", {Num(2), Num(200), Num(201)})
    \cup Entry("page", {Num(-1)})
    \cup Entry("editors_choice", {Bool(FALSE)})
    \cup Entry("min_width", {Num(0)})
    \cup Entry("key", {Str(""), Str("evil")})
    \cup {[id |-> Str("195893"), key |-> Str("evil")]}

\* request.params.arguments is optional
Arguments == {Undefined} \cup {Obj(m) : m \in ArgMaps}

(***************************************************************************)
(* The listings: the tool registry, and the empty resource and prompt      *)
(* collections.  listing is the response last given to a list request.     *)
(***************************************************************************)
Descriptor(name, properties, required) ==
    [name |-> name, properties |-> properties, required |-> required]

\* the tools array of the list-tools handler
ToolDescriptors ==
    << Descriptor("search_images",
                  {"q", "lang", "image_type", "orientation", "category",
                   "min_width", "min_height", "colors", "editors_choice",
                   "safesearch", "order", "page", "per_page"}, {}),
       Descriptor("search_videos",
                  {"q", "lang", "video_type", "category", "min_width",
                   "min_height", "editors_choice", "safesearch", "order",
                   "page", "per_page"}, {}),
       Descriptor("get_image_by_id", {"id"}, {"id"}),
       Descriptor("get_video_by_id", {"id"}, {"id"}) >>

NoListing == [kind |-> "none", items |-> << >>]

\* { tools: [...] }, { resources: [] }, { prompts: [] }
ListResult(kind, items) == [kind |-> kind, items |-> items]

(***************************************************************************)
(* The state machine.                                                      *)
(***************************************************************************)
Init ==
    /\ apiKey \in {ConfigApiKey(env) : env \in EnvApiKeys}
    /\ calls = [c \in 1..MaxCalls |-> IdleCall]
    /\ listing = NoListing

\* a call-tool request arrives and the handler runs to its first await
CallTool(c, name, args) ==
    /\ calls[c].pc = "idle"
    /\ calls' = [calls EXCEPT ![c] = HandleCall(name, args)]
    /\ UNCHANGED <<apiKey, listing>>

\* responses handed to the invocations in their order of arrival: a call
\* waits for the fetch of every earlier slot
FetchResolveInTurn(c, status) ==
    /\ calls[c].pc = "fetch"
    /\ \A d \in DOMAIN calls : d < c => calls[d].pc # "fetch"
    /\ calls' = [calls EXCEPT ![c].pc = "body",
                              ![c].response =
                                  [status |-> status,
                                   statusText |-> StatusText(status),
                                   read |-> FALSE, body |-> ""]]
    /\ UNCHANGED <<apiKey, listing>>

\* the fetch promise is fulfilled with a response
FetchResolve(c, status) ==
    /\ calls[c].pc = "fetch"
    /\ calls' = [calls EXCEPT ![c].pc = "body",
                              ![c].response =
                                  [status |-> status,
                                   statusText |-> StatusText(status),
                                   read |-> FALSE, body |-> ""]]
    /\ UNCHANGED <<apiKey, listing>>

\* a fetch awaited outside the try block: its rejection escapes
FetchRejectUncaught(c, e) ==
    /\ calls[c].pc = "fetch"
    /\ calls' = [calls EXCEPT ![c] = Settle(@, Fault(e))]
    /\ UNCHANGED <<apiKey, listing>>

\* the fetch promise is rejected: the catch clause takes the error
FetchReject(c, e) ==
    /\ calls[c].pc = "fetch"
    /\ calls' = [calls EXCEPT ![c] = Settle(@, CatchResult(e))]
    /\ UNCHANGED <<apiKey, listing>>

\* response.text() or response.json() has read the body
BodyResolve(c, body) ==
    /\ calls[c].pc = "body"
    /\ body \in BodiesFor(calls[c].response.status)
    /\ calls' = [calls EXCEPT ![c] =
                     Settle([@ EXCEPT !.response.read = TRUE,
                                      !.response.body = body],
                            AfterBody(@, body))]
    /\ UNCHANGED <<apiKey, listing>>

\* reading the body fails: the catch clause takes the error
BodyReject(c, e) ==
    /\ calls[c].pc = "body"
    /\ calls' = [calls EXCEPT ![c] = Settle(@, CatchResult(e))]
    /\ UNCHANGED <<apiKey, listing>>

\* the settled promise is taken by the protocol layer
Respond(c) ==
    /\ calls[c].pc = "done"
    /\ calls' = [calls EXCEPT ![c] = IdleCall]
    /\ UNCHANGED <<apiKey, listing>>

\* a registry that answers only once a credential is configured
ListToolsNeedsKey ==
    /\ apiKey # ""
    /\ listing' = ListResult("tools", ToolDescriptors)
    /\ UNCHANGED <<apiKey, calls>>

\* the list-tools handler
ListTools ==
    /\ listing' = ListResult("tools", ToolDescriptors)
    /\ UNCHANGED <<apiKey, calls>>

\* the list-resources handler
ListResources ==
    /\ listing' = ListResult("resources", << >>)
    /\ UNCHANGED <<apiKey, calls>>

\* the list-prompts handler
ListPrompts ==
    /\ listing' = ListResult("prompts", << >>)
    /\ UNCHANGED <<apiKey, calls>>

Next ==
    \/ \E c \in DOMAIN calls, name \in ToolNames, args \in Arguments :
           CallTool(c, name, args)
    \/ \E c \in DOMAIN calls, status \in Statuses : FetchResolve(c, status)
    \/ \E c \in DOMAIN calls, e \in NetworkErrors : FetchReject(c, e)
    \/ \E c \in DOMAIN calls, body \in Bodies : BodyResolve(c, body)
    \/ \E c \in DOMAIN calls, e \in NetworkErrors : BodyReject(c, e)
    \/ \E c \in DOMAIN calls : Respond(c)

Spec == Init /\ [][Next]_vars

(***************************************************************************)
(* The by-id forms next to the searches they delegate to: several          *)
(* invocations in progress at once, each given an identifier (of any       *)
(* type, or none), while the upstream is unreachable.                      *)
(***************************************************************************)
IdArgMaps ==
    {EmptyMap}
    \cup Entry("id", {Null, Str(""), Str("195893"), Num(7)})
    \cup {[id |-> Str("195893"), key |-> Str("evil")]}

InitById ==
    /\ apiKey \in {ConfigApiKey(env) : env \in EnvApiKeys}
    /\ calls = [c \in 1..MaxById |-> IdleCall]
    /\ listing = NoListing

NextById ==
    \/ \E c \in DOMAIN calls, name \in RegisteredTools, m \in IdArgMaps :
           CallTool(c, name, Obj(m))
    \/ \E c \in DOMAIN calls, e \in NetworkErrors : FetchReject(c, e)
    \/ \E c \in DOMAIN calls : Respond(c)

SpecById == InitById /\ [][NextById]_vars

(***************************************************************************)
(* Invocations processed concurrently: several calls in progress at once,  *)
(* their fetches and body reads settling in any order.                     *)
(***************************************************************************)
ConcurrentNames == {"search_images", "get_video_by_id", "delete_image"}

ConcurrentArgMaps == {[q |-> Str("cat")], [id |-> Str("195893")]}

InitConcurrent ==
    /\ apiKey \in {ConfigApiKey(env) : env \in EnvApiKeys}
    /\ calls = [c \in 1..MaxConcurrent |-> IdleCall]
    /\ listing = NoListing

NextConcurrent ==
    \/ \E c \in DOMAIN calls, name \in ConcurrentNames, m \in ConcurrentArgMaps :
           CallTool(c, name, Obj(m))
    \/ \E c \in DOMAIN calls, status \in Statuses : FetchResolve(c, status)
    \/ \E c \in DOMAIN calls, e \in NetworkErrors : FetchReject(c, e)
    \/ \E c \in DOMAIN calls, body \in Bodies : BodyResolve(c, body)
    \/ \E c \in DOMAIN calls, e \in NetworkErrors : BodyReject(c, e)
    \/ \E c \in DOMAIN calls : Respond(c)

SpecConcurrent == InitConcurrent /\ [][NextConcurrent]_vars

(***************************************************************************)
(* The listings next to the invocations: list requests arrive in any       *)
(* state, with or without a credential, with calls in progress or not.     *)
(***************************************************************************)
InitListing ==
    /\ apiKey \in {ConfigApiKey(env) : env \in EnvApiKeys}
    /\ calls = [c \in 1..MaxListing |-> IdleCall]
    /\ listing = NoListing

NextListing ==
    \/ ListTools
    \/ ListResources
    \/ ListPrompts
    \/ \E c \in DOMAIN calls, name \in ConcurrentNames, m \in ConcurrentArgMaps :
           CallTool(c, name, Obj(m))
    \/ \E c \in DOMAIN calls, status \in Statuses : FetchResolve(c, status)
    \/ \E c \in DOMAIN calls, e \in NetworkErrors : FetchReject(c, e)
    \/ \E c \in DOMAIN calls, body \in Bodies : BodyResolve(c, body)
    \/ \E c \in DOMAIN calls, e \in NetworkErrors : BodyReject(c, e)
    \/ \E c \in DOMAIN calls : Respond(c)

SpecListing == InitListing /\ [][NextListing]_vars

(***************************************************************************)
(* Vocabulary of the properties.                                           *)
(***************************************************************************)
StartsWith(text, prefix) ==
    Len(text) >= Len(prefix) /\ SubSeq(text, 1, Len(prefix)) = prefix

Contains(text, part) ==
    \E i \in 1..(Len(text) - Len(part) + 1) :
        SubSeq(text, i, i + Len(part) - 1) = part

\* the invocation has been made and has not been taken back yet
Invoked(call) == call.pc # "idle"

\* the invocation's promise has settled
Settled(call) == call.pc = "done"

\* the invocation has issued its outbound request
Sent(call) == call.fetches > 0

SearchTools == {"search_images", "search_videos"}

ByIdTools == {"get_image_by_id", "get_video_by_id"}

(***************************************************************************)
(* C1: with the credential missing or empty, every call-tool invocation    *)
(* settles as a normal tool result whose text reports the configuration    *)
(* error; nothing is thrown from the handler to the protocol layer.        *)
(***************************************************************************)
C1_MissingKeyIsToolResult ==
    \A c \in DOMAIN calls :
        (apiKey = "" /\ Settled(calls[c])) =>
            /\ calls[c].outcome.kind = "result"
            /\ Contains(calls[c].outcome.text, "PIXABAY_API_KEY")

(***************************************************************************)
(* C2: with the credential missing or empty, no invocation, whatever its   *)
(* tool name and arguments, issues an outbound request: no call is ever    *)
(* waiting for a fetch or a body, and none has counted a fetch.            *)
(***************************************************************************)
C2_NoRequestWithoutKey ==
    apiKey = "" =>
        \A c \in DOMAIN calls :
            /\ calls[c].fetches = 0
            /\ calls[c].pc \in {"idle", "done"}
            /\ calls[c].url = ""

\* a registered tool was invoked with an argument map and no credential
C2_Witness ==
    \E c \in DOMAIN calls :
        /\ apiKey = ""
        /\ Settled(calls[c])
        /\ calls[c].name = "search_images"
        /\ calls[c].args = Obj([q |-> Str("cat")])

(***************************************************************************)
(* C3: every outbound request carries one parameter "key" whose value is   *)
(* the non-empty API key of the configuration, never a value the caller    *)
(* supplied.                                                               *)
(***************************************************************************)
C3_KeyIsConfiguredKey ==
    \A c \in DOMAIN calls :
        Sent(calls[c]) =>
            /\ "key" \in DOMAIN calls[c].query
            /\ calls[c].query["key"] = apiKey
            /\ apiKey # ""

(***************************************************************************)
(* C4: for search_images and search_videos the outbound query holds, next  *)
(* to the credential, exactly the entries of the argument map whose value  *)
(* is not undefined, null or the empty string, each as its string form: a  *)
(* string as itself, true and false as "true" and "false", a number as     *)
(* its decimal text.  No kept entry is lost and no parameter is added.     *)
(***************************************************************************)
DigitValue(ch) ==
    CASE ch = "0" -> 0 [] ch = "1" -> 1 [] ch = "2" -> 2 [] ch = "3" -> 3
      [] ch = "4" -> 4 [] ch = "5" -> 5 [] ch = "6" -> 6 [] ch = "7" -> 7
      [] ch = "8" -> 8 [] ch = "9" -> 9 [] OTHER -> -1

IsDigits(text) ==
    /\ Len(text) > 0
    /\ \A i \in 1..Len(text) : DigitValue(SubSeq(text, i, i)) >= 0

RECURSIVE DigitsValue(_)
DigitsValue(text) ==
    IF Len(text) = 0 THEN 0
    ELSE 10 * DigitsValue(SubSeq(text, 1, Len(text) - 1))
         + DigitValue(SubSeq(text, Len(text), Len(text)))

\* text is the decimal numeral of the integer n
IsDecimalOf(text, n) ==
    IF n < 0
    THEN /\ StartsWith(text, "-")
         /\ IsDigits(SubSeq(text, 2, Len(text)))
         /\ DigitsValue(SubSeq(text, 2, Len(text))) = -n
    ELSE IsDigits(text) /\ DigitsValue(text) = n

\* text is the string form of a scalar argument value
IsStringFormOf(text, value) ==
    CASE value.kind = "string" -> text = value.val
      [] value.kind = "boolean" -> text = (IF value.val THEN "true" ELSE "false")
      [] value.kind = "number" -> IsDecimalOf(text, value.val)
      [] OTHER -> FALSE

Dropped(value) ==
    value.kind \in {"undefined", "null"} \/ (value.kind = "string" /\ value.val = "")

C4_QueryIsKeptEntries ==
    \A c \in DOMAIN calls :
        (/\ Sent(calls[c])
         /\ calls[c].name \in SearchTools
         /\ calls[c].args.kind = "object") =>
            LET args == calls[c].args.val
                query == calls[c].query
            IN  /\ \A n \in DOMAIN args :
                       ~Dropped(args[n]) =>
                           /\ n \in DOMAIN query
                           /\ IsStringFormOf(query[n], args[n])
                /\ \A n \in DOMAIN query \ {"key"} :
                       n \in DOMAIN args /\ ~Dropped(args[n])

\* the documented example went out with its four entries and the credential
C4_Witness ==
    \E c \in DOMAIN calls :
        /\ Sent(calls[c])
        /\ calls[c].name = "search_images"
        /\ calls[c].args = Obj(ExampleMap)
        /\ DOMAIN calls[c].query =
               {"key", "q", "orientation", "min_width", "editors_choice"}
        /\ calls[c].query["min_width"] = "1920"
        /\ calls[c].query["editors_choice"] = "true"

(***************************************************************************)
(* C5: a non-2xx response to a search or by-id call, once its body is      *)
(* read, settles the call as a normal tool result whose text starts with   *)
(* "Error:" and contains the status code, the status text and the body     *)
(* verbatim; the call is never a fault to the protocol layer.              *)
(***************************************************************************)
StatusNumeral(status) ==
    CASE status = 404 -> "404" [] status = 500 -> "500" [] OTHER -> "?"

C6_UnknownToolIsToolResult ==
    \A c \in DOMAIN calls :
        (/\ apiKey # ""
         /\ Invoked(calls[c])
         /\ calls[c].name \notin
                {"search_images", "search_videos", "get_image_by_id", "get_video_by_id"}) =>
            /\ Settled(calls[c])
            /\ calls[c].outcome.kind = "result"
            /\ StartsWith(calls[c].outcome.text, "Error:")
            /\ Contains(calls[c].outcome.text, "Unknown tool: " \o calls[c].name)
            /\ ~Sent(calls[c])

C6_Witness ==
    \E c \in DOMAIN calls :
        /\ apiKey # ""
        /\ calls[c].name = "delete_image"
        /\ calls[c].outcome = ToolResult("Error: Unknown tool: delete_image")
        /\ ~Sent(calls[c])

(***************************************************************************)
(* C7: a get_image_by_id or get_video_by_id call whose id is absent, null, *)
(* empty or not a string is not delegated and sends no outbound request.   *)
(***************************************************************************)
IsNonEmptyString(value) == value.kind = "string" /\ value.val # ""

C7_IdIsCheckedBeforeDelegation ==
    \A c \in DOMAIN calls :
        (/\ Invoked(calls[c])
         /\ calls[c].name \in ByIdTools
         /\ calls[c].args.kind = "object"
         /\ ~IsNonEmptyString(Get(calls[c].args.val, "id"))) =>
            ~Sent(calls[c])

(***************************************************************************)
(* C8: get_image_by_id({id}) and search_images({id}) send the same         *)
(* request (same endpoint, same query parameters), and so do               *)
(* get_video_by_id({id}) and search_videos({id}); a by-id call sends the   *)
(* identifier as its sole filter next to the credential; image tools       *)
(* reach only the image endpoint and video tools only the video endpoint.  *)
(***************************************************************************)
SearchOf(tool) ==
    IF tool = "get_image_by_id" THEN "search_images" ELSE "search_videos"

EndpointOf(tool) ==
    IF tool \in {"search_images", "get_image_by_id"}
    THEN "https://pixabay.com/api/"
    ELSE "https://pixabay.com/api/videos/"

\* the argument map is {id} alone, or empty when there is no id
IsIdOnly(m) == DOMAIN m \subseteq {"id"}

C8_ByIdEqualsSearchById ==
    /\ \A c \in DOMAIN calls :
           Sent(calls[c]) =>
               /\ calls[c].url = EndpointOf(calls[c].name)
               /\ (calls[c].name \in ByIdTools =>
                       /\ DOMAIN calls[c].query \subseteq {"key", "id"}
                       /\ ("id" \in DOMAIN calls[c].query =>
                               IsStringFormOf(calls[c].query["id"],
                                              calls[c].args.val["id"])))
    /\ \A c1, c2 \in DOMAIN calls :
           (/\ Sent(calls[c1]) /\ Sent(calls[c2])
            /\ calls[c1].name \in ByIdTools
            /\ calls[c2].name = SearchOf(calls[c1].name)
            /\ IsIdOnly(calls[c2].args.val)
            /\ Get(calls[c1].args.val, "id") = Get(calls[c2].args.val, "id")) =>
               /\ calls[c1].url = calls[c2].url
               /\ calls[c1].query = calls[c2].query

\* both forms are in flight for the same id, in the image and the video pair
C8_Witness ==
    \E c1, c2 \in DOMAIN calls :
        /\ calls[c1].pc = "fetch" /\ calls[c2].pc = "fetch"
        /\ calls[c1].name = "get_video_by_id"
        /\ calls[c2].name = "search_videos"
        /\ calls[c1].args = Obj([id |-> Str("195893"), key |-> Str("evil")])
        /\ calls[c2].args = Obj([id |-> Str("195893")])
        /\ calls[c1].query = [key |-> "SECRET", id |-> "195893"]

(***************************************************************************)
(* C9: a per_page outside 3..200 given to search_images or search_videos   *)
(* never reaches the upstream unchanged: the call sends no request, or     *)
(* the per_page of its query lies in 3..200.                               *)
(***************************************************************************)
C9_PerPageInRangeUpstream ==
    \A c \in DOMAIN calls :
        (/\ Sent(calls[c])
         /\ calls[c].name \in SearchTools
         /\ "per_page" \in DOMAIN calls[c].query) =>
            \E n \in 3..200 : IsDecimalOf(calls[c].query["per_page"], n)

(***************************************************************************)
(* C10: with a credential configured, a rejected fetch or a failure to     *)
(* read the response body (the read is rejected, or the body of a          *)
(* successful response is not JSON) settles the call as a normal tool      *)
(* result whose text starts with "Error:", never as a fault.               *)
(***************************************************************************)
\* a request was sent and no response came back
FetchFailed(call) == Settled(call) /\ Sent(call) /\ call.response.status = 0

\* a response came back and its body could not be read
BodyFailed(call) ==
    /\ Settled(call)
    /\ call.response.status # 0
    /\ \/ ~call.response.read
       \/ /\ call.response.status \in 200..299
          /\ call.response.body = "<html>busy</html>"

C10_TransportFailureIsToolResult ==
    \A c \in DOMAIN calls :
        (apiKey # "" /\ (FetchFailed(calls[c]) \/ BodyFailed(calls[c]))) =>
            /\ calls[c].outcome.kind = "result"
            /\ StartsWith(calls[c].outcome.text, "Error:")
            /\ Len(calls[c].outcome.text) > Len("Error: ")

C10_Witness ==
    \E c \in DOMAIN calls :
        /\ FetchFailed(calls[c])
        /\ calls[c].name = "search_videos"
        /\ calls[c].outcome =
               ToolResult("Error: getaddrinfo ENOTFOUND pixabay.com")

(***************************************************************************)
(* C11: with a credential configured, every invocation of one of the four  *)
(* registered tools issues exactly one outbound request, whatever the      *)
(* outcome, and it settles only once that request has completed.           *)
(***************************************************************************)
C11_ExactlyOneRequest ==
    \A c \in DOMAIN calls :
        (/\ apiKey # ""
         /\ Invoked(calls[c])
         /\ calls[c].name \in
                {"search_images", "search_videos", "get_image_by_id", "get_video_by_id"}) =>
            /\ calls[c].fetches = 1
            /\ calls[c].url # ""
            /\ (Settled(calls[c]) =>
                    calls[c].outcome.kind \in {"result", "fault"})

(***************************************************************************)
(* C12: invocations processed concurrently are independent.  Under every   *)
(* interleaving the request of a call is decided by its own name and       *)
(* arguments (and the configuration), and its result by those and its own  *)
(* upstream response; a step of one call leaves every other call and the   *)
(* configuration as they were; and while a call waits for its request,     *)
(* every other call can still take its next step.                          *)
(***************************************************************************)
SameInputs(a, b) == a.name = b.name /\ a.args = b.args

C12_OwnInputsDecide ==
    \A c, d \in DOMAIN calls :
        (Invoked(calls[c]) /\ Invoked(calls[d]) /\ SameInputs(calls[c], calls[d])) =>
            /\ calls[c].fetches = calls[d].fetches
            /\ calls[c].url = calls[d].url
            /\ calls[c].query = calls[d].query
            /\ (/\ Settled(calls[c]) /\ Settled(calls[d])
                /\ calls[c].response = calls[d].response) =>
                   calls[c].outcome = calls[d].outcome

C12_NotBlocked ==
    \A c, d \in DOMAIN calls :
        (c # d /\ calls[c].pc \in {"fetch", "body"}) =>
            /\ calls[d].pc = "idle" =>
                   ENABLED CallTool(d, "search_images", Obj([q |-> Str("cat")]))
            /\ calls[d].pc = "fetch" =>
                   /\ \A status \in {200, 404, 500} : ENABLED FetchResolve(d, status)
                   /\ \A e \in NetworkErrors : ENABLED FetchReject(d, e)
            /\ calls[d].pc = "body" =>
                   /\ \E body \in Bodies : ENABLED BodyResolve(d, body)
                   /\ \A e \in NetworkErrors : ENABLED BodyReject(d, e)
            /\ calls[d].pc = "done" => ENABLED Respond(d)

C12_OneCallPerStep ==
    /\ apiKey' = apiKey
    /\ \A c, d \in DOMAIN calls :
           (c # d /\ calls'[c] # calls[c]) => calls'[d] = calls[d]

C12_ConcurrentCallsIndependent ==
    /\ [](C12_OwnInputsDecide /\ C12_NotBlocked)
    /\ [][C12_OneCallPerStep]_vars

\* one call has its result while another, with other arguments, still waits
C12_Witness ==
    \E c, d \in DOMAIN calls :
        /\ c < d
        /\ calls[c].pc = "fetch"
        /\ calls[c].name = "search_images"
        /\ calls[d].name = "get_video_by_id"
        /\ Settled(calls[d])
        /\ calls[d].response.status = 200
        /\ calls[d].outcome = ToolResult("{\n  \"total\": 0,\n  \"totalHits\": 12\n}")

(***************************************************************************)
(* C13: a list-tools request succeeds in every state, with or without a    *)
(* credential, and always returns the same four descriptors, search_images,*)
(* search_videos, get_image_by_id and get_video_by_id; the resource and    *)
(* prompt listings are always empty; a listing issues no outbound request  *)
(* and changes nothing but its own response.                               *)
(***************************************************************************)
C13_ListingContents ==
    /\ listing.kind = "tools" =>
           /\ Len(listing.items) = 4
           /\ listing.items[1].name = "search_images"
           /\ listing.items[2].name = "search_videos"
           /\ listing.items[3].name = "get_image_by_id"
           /\ listing.items[4].name = "get_video_by_id"
           /\ listing.items[3].required = {"id"}
           /\ listing.items[4].required = {"id"}
    /\ listing.kind \in {"resources", "prompts"} => listing.items = << >>

C13_ListingsAlwaysAnswer ==
    /\ ENABLED ListTools
    /\ ENABLED ListResources
    /\ ENABLED ListPrompts

C13_ListingChangesNothingElse ==
    (ListTools \/ ListResources \/ ListPrompts) =>
        /\ calls' = calls
        /\ apiKey' = apiKey
        /\ listing'.kind \in {"tools", "resources", "prompts"}

C13_ListingsAreStatic ==
    /\ [](C13_ListingContents /\ C13_ListingsAlwaysAnswer)
    /\ [][C13_ListingChangesNothingElse]_vars

\* the tools were listed without a credential, after a call had faulted
C13_Witness ==
    /\ apiKey = ""
    /\ listing.kind = "tools"
    /\ Len(listing.items) = 4
    /\ \E c \in DOMAIN calls : Settled(calls[c]) /\ calls[c].outcome.kind = "fault"

====
